---------------------------- MODULE Spec2Model ----------------------------
(***************************************************************************)
(* The human-in-the-loop review queue of the Study-Plan-Approval-Agent     *)
(* front end: the usePlans hook (src/src/hooks/usePlans.js) and the        *)
(* ReviewDashboard component (src/src/components/ReviewDashboard.jsx).     *)
(*                                                                         *)
(* Six specifications share the variables:                                 *)
(*   Spec        the dashboard driving its own usePlans instance: the      *)
(*               reviewer's clicks, the timers and the React effects;      *)
(*   SpecHook    the usePlans hook driven by an arbitrary client, which    *)
(*               may call submitDecision with any arguments at any time;   *)
(*   SpecScores  the score arithmetic of the render, applied to every      *)
(*               triple of scores in [0,100].                              *)
(*   FairSpec    Spec with the timers' callbacks sure to run;              *)
(*   SpecRawScores  the same arithmetic applied to numbers inside and      *)
(*               outside [0,100];                                          *)
(*   SpecCSV     parseCSV of the CSV tables' loader (the same source       *)
(*               file, lines 99-216), applied to short texts.              *)
(*                                                                         *)
(* Modelling decisions.                                                    *)
(*  - A nullable JavaScript value is a sequence of length at most one:     *)
(*    Null is <<>>, Some(v) is <<v>>.                                      *)
(*  - Text that the code inspects character by character (the modal's      *)
(*    context, the value typed into the hours field) is a sequence of      *)
(*    one-character strings; text that is only stored or compared is a     *)
(*    string.                                                              *)
(*  - The display-only fields of a plan (course, semester and the three    *)
(*    reasoning texts) are left out: no handler reads them.                *)
(*  - React runs the passive effects of a render before it handles the     *)
(*    next event, so an effect is part of the action that changed its      *)
(*    dependency.                                                          *)
(*  - The guards of the dashboard's actions are the code's own: the        *)
(*    disabled attributes and the early returns.  The modal's full-screen  *)
(*    overlay is styling, not a guard (the buttons under it stay           *)
(*    reachable from the keyboard).                                        *)
(*  - Objects are values here, so sharing is modelled where the code       *)
(*    writes an object in place: handleDetailChange writes a detail line   *)
(*    of the editor, and the write is applied to every holder of that      *)
(*    line object (the variable shared names the calls that hold them).    *)
(*  - setTimeout callbacks run in order of expiry: the 500 ms load timer   *)
(*    armed at mount fires before any 1000 ms latency timer, and the       *)
(*    latency timers fire in the order the calls started.                  *)
(***************************************************************************)
EXTENDS Integers, Sequences, FiniteSets, TLC

VARIABLES
    plans,              \* usePlans: the queue (useState(MOCK_PLANS))
    loading,            \* usePlans: the loading flag
    timer,              \* usePlans: the 500 ms load timer, "armed" or "fired"
    calls,              \* submitDecision calls awaiting their latency timer, oldest first
    nextId,             \* number of the next submitDecision call
    returned,           \* the submitDecision calls that have finished, with their outcome
    console,            \* the lines written with console.log, oldest first
    selectedPlan,       \* ReviewDashboard: Null or Some(plan)
    editedPlanDetails,  \* ReviewDashboard: the editable copy of the detail lines
    isModalOpen,        \* ReviewDashboard: the edit-context modal is shown
    context,            \* EditContextModal: the text typed so far
    edits,              \* number of handleDetailChange events so far
    alerts,             \* the kinds of window.alert message shown so far
    shared,             \* the calls whose logged patch holds the editor's own line objects
    scoresIn,           \* the three scores handed to the render
    shown,              \* what the render displayed for scoresIn
    csvText,            \* the text of a fetched CSV file
    csvRows             \* Null, or what parseCSV made of csvText

hookVars == <<plans, loading, timer, calls, nextId, returned, console>>
dashVars == <<selectedPlan, editedPlanDetails, isModalOpen, context, edits, alerts,
             shared>>
scoreVars == <<scoresIn, shown>>
csvVars == <<csvText, csvRows>>
vars == <<plans, loading, timer, calls, nextId, returned, console,
          selectedPlan, editedPlanDetails, isModalOpen, context, edits, alerts,
          shared,
          scoresIn, shown, csvText, csvRows>>

----------------------------------------------------------------------------
(* Bounds of the model *)

\* submitDecision calls started in one behaviour
MaxCalls == 2
\* handleDetailChange events in one behaviour
MaxEdits == 1

----------------------------------------------------------------------------
(* Values *)

Null == <<>>
Some(v) == <<v>>
IsNull(x) == x = <<>>
Val(x) == x[1]

RECURSIVE SelectSeqBy(_, _)
\* Array.prototype.filter with the predicate "planId differs from id"
SelectSeqBy(s, id) ==
    IF s = <<>> THEN <<>>
    ELSE IF Head(s).planId # id
         THEN <<Head(s)>> \o SelectSeqBy(Tail(s), id)
         ELSE SelectSeqBy(Tail(s), id)

QueueIds(q) == {q[i].planId : i \in 1..Len(q)}

----------------------------------------------------------------------------
(* usePlans.js *)

mockPlan001 ==
    [planId |-> "plan-001",
     studentName |-> "Alice Johnson (Math Major)",
     scheduling_score |-> 70,
     alignment_score |-> 85,
     workload_score |-> 55,
     weighted_color |-> "yellow",
     study_plan_details |->
       << [courseCode |-> "MTH-110", courseName |-> "Calculus I",
           allocatedHours |-> 10, priority |-> "High"],
          [courseCode |-> "MTH-215", courseName |-> "Linear Algebra",
           allocatedHours |-> 8, priority |-> "High"],
          [courseCode |-> "PHY-101", courseName |-> "Classical Mechanics",
           allocatedHours |-> 12, priority |-> "High"],
          [courseCode |-> "BUS-101", courseName |-> "Intro to Business",
           allocatedHours |-> 5, priority |-> "Medium"] >>]

mockPlan002 ==
    [planId |-> "plan-002",
     studentName |-> "Bob Smith (CS Major)",
     scheduling_score |-> 80,
     alignment_score |-> 60,
     workload_score |-> 65,
     weighted_color |-> "yellow",
     study_plan_details |->
       << [courseCode |-> "CSC-310", courseName |-> "Database Systems",
           allocatedHours |-> 15, priority |-> "High"],
          [courseCode |-> "CSC-250", courseName |-> "Data Structures",
           allocatedHours |-> 15, priority |-> "High"],
          [courseCode |-> "HRM-200", courseName |-> "HR Management",
           allocatedHours |-> 4, priority |-> "Low"] >>]

\* Faulty variant: a score of plan-002 is raised and its colour is left as it was
MOCK_PLANS_staleColour ==
    <<mockPlan001, [mockPlan002 EXCEPT !.scheduling_score = 98]>>

\* Faulty variant: a plan scored and coloured green is put in the queue
MOCK_PLANS_greenQueued ==
    <<mockPlan001,
      [mockPlan002 EXCEPT !.scheduling_score = 90, !.alignment_score = 90,
                          !.workload_score = 90, !.weighted_color = "green"]>>

MOCK_PLANS == <<mockPlan001, mockPlan002>>

PlanIds == QueueIds(MOCK_PLANS)

\* usePlans: the two useState initialisers followed by the mount effect,
\* which sets loading and arms the 500 ms timer.
usePlans_init ==
    /\ plans = MOCK_PLANS
    /\ loading = TRUE
    /\ timer = "armed"
    /\ calls = <<>>
    /\ nextId = 1
    /\ returned = {}
    /\ console = <<>>

\* The callback of the mount effect's setTimeout: setLoading(false).
loadTimer ==
    /\ timer = "armed"
    /\ timer' = "fired"
    /\ loading' = FALSE
    /\ UNCHANGED <<plans, calls, nextId, returned, console>>

\* What a submitDecision call does with its arguments before it touches the
\* state: nothing.  It neither throws nor rejects, so the promise of every
\* call resolves.
submitDecision_outcome(call, currentPlans) == "ok"

\* Faulty variant: the filter keeps the plans that do not differ from planId
submitDecision_filter_inverted(currentPlans, planId) ==
    SelectSeq(currentPlans, LAMBDA p : p.planId = planId)

\* Faulty variant: the head of the queue is dropped, whichever plan was decided
submitDecision_filter_shift(currentPlans, planId) ==
    IF currentPlans = <<>> THEN <<>> ELSE Tail(currentPlans)

\* The queue that the functional update of setPlans computes from the
\* current queue.
submitDecision_filter(currentPlans, planId) == SelectSeqBy(currentPlans, planId)

\* Faulty variant: setPlans(plans.filter(...)), which filters the queue that
\* the call's closure captured when it started
submitDecision_nextPlans_stale(call, currentPlans) ==
    submitDecision_filter(call.closurePlans, call.planId)

\* Faulty variant: the filter is applied to the queue as it was loaded
submitDecision_nextPlans_reset(call, currentPlans) ==
    submitDecision_filter(MOCK_PLANS, call.planId)

\* setPlans(currentPlans => currentPlans.filter(...)): the functional update
\* filters the queue as it is when the update runs; the queue that the
\* call's closure captured takes no part.
submitDecision_nextPlans(call, currentPlans) ==
    submitDecision_filter(currentPlans, call.planId)

\* The three console.log statements of a call; the third runs when
\* editedDetails is truthy, and an empty array is.  Each line is tagged with
\* the number of the call that wrote it.
submitDecision_log(id, planId, decision, ctx, editedDetails) ==
    << [kind |-> "decision", call |-> id, planId |-> planId, decision |-> decision],
       [kind |-> "context", call |-> id, text |-> ctx] >>
    \o (IF IsNull(editedDetails) THEN <<>>
        ELSE << [kind |-> "details", call |-> id, lines |-> Val(editedDetails)] >>)

\* The requests a call sends to a back end.  The POST and its payloads are
\* described in comments only; the call sends nothing.
submitDecision_requests(call) == {}

\* The loading flag a finishing call leaves behind: setLoading(false).
submitDecision_loadingAfter(inFlightAfter) == FALSE

\* submitDecision up to its await: setLoading(true), the console.log lines,
\* and the 1000 ms latency timer.
submitDecision(planId, decision, ctx, editedDetails, via) ==
    /\ nextId <= MaxCalls
    /\ loading' = TRUE
    /\ calls' = Append(calls,
                  [id |-> nextId, planId |-> planId, decision |-> decision,
                   context |-> ctx, editedDetails |-> editedDetails, via |-> via,
                   overlapped |-> {calls[i].id : i \in 1..Len(calls)},
                   queuedAtStart |-> planId \in QueueIds(plans),
                   closurePlans |-> plans])
    /\ console' = console \o submitDecision_log(nextId, planId, decision, ctx,
                                                editedDetails)
    /\ nextId' = nextId + 1
    /\ UNCHANGED <<plans, timer, returned>>

\* submitDecision after its await: the oldest latency timer fires, the plan
\* is filtered out of the queue, loading is cleared and the promise resolves.
submitDecision_resume ==
    /\ calls # <<>>
    /\ timer = "fired"
    /\ LET call == Head(calls) IN
         /\ plans' = submitDecision_nextPlans(call, plans)
         /\ loading' = submitDecision_loadingAfter(Tail(calls))
         /\ returned' = returned \cup
                {[id |-> call.id, planId |-> call.planId, decision |-> call.decision,
                  context |-> call.context,
                  editedDetails |-> call.editedDetails,
                  requests |-> submitDecision_requests(call),
                  via |-> call.via, overlapped |-> call.overlapped,
                  queuedAtStart |-> call.queuedAtStart,
                  result |-> submitDecision_outcome(call, plans),
                  removed |-> call.planId \in QueueIds(plans)]}
         /\ calls' = Tail(calls)
    /\ UNCHANGED <<timer, nextId, console>>

----------------------------------------------------------------------------
(* ReviewDashboard.jsx *)

\* The white space that String.prototype.trim removes, as far as it occurs here
WhiteSpace == {" ", "\n"}

RECURSIVE TrimStart(_)
TrimStart(s) ==
    IF s # <<>> /\ Head(s) \in WhiteSpace THEN TrimStart(Tail(s)) ELSE s

RECURSIVE TrimEnd(_)
TrimEnd(s) ==
    IF s # <<>> /\ s[Len(s)] \in WhiteSpace
    THEN TrimEnd(SubSeq(s, 1, Len(s) - 1))
    ELSE s

\* String.prototype.trim
Trim(s) == TrimEnd(TrimStart(s))

\* What the reviewer can have typed into the modal's textarea: nothing, white
\* space only, a word, a word within white space
ContextTexts == {<<>>, <<" ">>, <<"x">>, <<" ", "x", " ">>}

Digits == {"0", "1", "2", "3", "4", "5", "6", "7", "8", "9"}
DigitValue(c) ==
    CASE c = "0" -> 0 [] c = "1" -> 1 [] c = "2" -> 2 [] c = "3" -> 3 [] c = "4" -> 4
      [] c = "5" -> 5 [] c = "6" -> 6 [] c = "7" -> 7 [] c = "8" -> 8 [] c = "9" -> 9

RECURSIVE DigitRun(_, _)
\* The value of the longest prefix of digits of s, read after the value acc
DigitRun(s, acc) ==
    IF s # <<>> /\ Head(s) \in Digits
    THEN DigitRun(Tail(s), 10 * acc + DigitValue(Head(s)))
    ELSE acc

\* parseInt(value): white space skipped, an optional sign, then the longest
\* run of decimal digits; Null stands for NaN, the result when there is no
\* digit.
parseInt(value) ==
    LET s == TrimStart(value)
        neg == s # <<>> /\ Head(s) = "-"
        body == IF s # <<>> /\ Head(s) \in {"-", "+"} THEN Tail(s) ELSE s
    IN  IF body = <<>> \/ Head(body) \notin Digits THEN Null
        ELSE IF neg THEN Some(0 - DigitRun(body, 0)) ELSE Some(DigitRun(body, 0))

\* parseInt(value) || 0: NaN and 0 are falsy
parseIntOrZero(value) ==
    LET n == parseInt(value) IN IF IsNull(n) THEN 0 ELSE Val(n)

\* Values of the hours field: a number input hands over "" or the text of a
\* number, which may be negative or fractional.
HoursInputs == {<<>>, <<"-", "3">>, <<"2", ".", "5">>}
\* The options of the priority select
Priorities == {"High", "Medium", "Low"}

\* plans.find(p => p.planId === id): Null when there is none
find(ps, id) ==
    IF id \in QueueIds(ps)
    THEN Some(ps[CHOOSE i \in 1..Len(ps) :
                    /\ ps[i].planId = id
                    /\ \A j \in 1..(i - 1) : ps[j].planId # id])
    ELSE Null

\* Faulty variant: a selection is kept without looking it up in the queue
effect_selectPlan_keep(ps, sel) ==
    IF Len(ps) > 0 /\ IsNull(sel) THEN Some(ps[1])
    ELSE IF Len(ps) > 0 THEN sel
    ELSE Null

\* The effect on [plans]: keep the selected plan while it is queued, else
\* select the first plan, else nothing.
effect_selectPlan(ps, sel) ==
    IF Len(ps) > 0 /\ IsNull(sel) THEN Some(ps[1])
    ELSE IF Len(ps) > 0 /\ ~IsNull(sel)
         THEN LET current == find(ps, Val(sel).planId) IN
              IF IsNull(current) THEN Some(ps[1]) ELSE current
         ELSE Null

\* study_plan_details.map(d => ({ ...d })): a copy, line by line
copyDetails(details) == [i \in 1..Len(details) |-> details[i]]

\* Faulty variant: study_plan_details.map(d => d), whose lines are the plan's own
copyDetails_shares_alias == TRUE

\* Whether the lines of the copy are the very objects of the plan: the spread
\* { ...d } makes a new object for every line, so they are not.
copyDetails_shares == FALSE

\* newDetails[index][field] = v on an array of detail lines
writeLine(lines, index, field, v) == [lines EXCEPT ![index][field] = v]

\* Faulty variant: the copy is made for the first selection only
effect_syncDetails_once(sel, oldSel, oldDetails) ==
    IF oldDetails = <<>> /\ ~IsNull(sel)
    THEN copyDetails(Val(sel).study_plan_details)
    ELSE oldDetails

\* The effect on [selectedPlan]: it runs when the selection changed and
\* copies the details of a selected plan; a selection of null keeps the
\* last copy.
effect_syncDetails(sel, oldSel, oldDetails) ==
    IF sel # oldSel /\ ~IsNull(sel)
    THEN copyDetails(Val(sel).study_plan_details)
    ELSE oldDetails

\* ReviewDashboard after its first render and the effects of the mount
ReviewDashboard_init ==
    /\ selectedPlan = effect_selectPlan(MOCK_PLANS, Null)
    /\ editedPlanDetails =
          effect_syncDetails(effect_selectPlan(MOCK_PLANS, Null), Null, <<>>)
    /\ isModalOpen = FALSE
    /\ context = <<>>
    /\ edits = 0
    /\ alerts = {}
    /\ shared = {}

\* The effects that follow a change of selectedPlan to sel.  A new copy
\* parts the editor from the line objects it held, and so from every patch
\* logged with them.
selectAndSync(sel) ==
    /\ selectedPlan' = sel
    /\ editedPlanDetails' = effect_syncDetails(sel, selectedPlan, editedPlanDetails)
    /\ shared' = IF sel # selectedPlan /\ ~IsNull(sel) THEN {} ELSE shared

\* onClick of a queue card: setSelectedPlan(plan)
clickPlan(i) ==
    /\ i \in 1..Len(plans)
    /\ selectAndSync(Some(plans[i]))
    /\ UNCHANGED <<isModalOpen, context, edits, alerts>>
    /\ UNCHANGED hookVars

\* handleDetailChange(index, field, value) on a row of the editor, which is
\* rendered while a plan is selected (index counts from 1 here).  The array
\* is copied with [...editedPlanDetails] and the line is written in place, so
\* the write reaches every holder of that line object: the patch of a call
\* that was handed editedPlanDetails, the console line that logged it, and
\* the plan itself if the editor's lines were the plan's own.
handleDetailChange(index, field, value) ==
    /\ ~IsNull(selectedPlan)
    /\ index \in 1..Len(editedPlanDetails)
    /\ edits < MaxEdits
    /\ LET v == IF field = "allocatedHours" THEN parseIntOrZero(value) ELSE value
           write(lines) == writeLine(lines, index, field, v)
           writePlan(p) == IF copyDetails_shares /\ p.planId = Val(selectedPlan).planId
                           THEN [p EXCEPT !.study_plan_details = write(@)]
                           ELSE p
       IN /\ editedPlanDetails' = write(editedPlanDetails)
          /\ console' = [i \in 1..Len(console) |->
                            IF console[i].kind = "details" /\ console[i].call \in shared
                            THEN [console[i] EXCEPT !.lines = write(@)]
                            ELSE console[i]]
          /\ calls' = [i \in 1..Len(calls) |->
                          IF calls[i].id \in shared
                          THEN [calls[i] EXCEPT !.editedDetails = Some(write(Val(@)))]
                          ELSE calls[i]]
          /\ plans' = [i \in 1..Len(plans) |-> writePlan(plans[i])]
          /\ selectedPlan' = Some(writePlan(Val(selectedPlan)))
    /\ edits' = edits + 1
    /\ UNCHANGED <<isModalOpen, context, alerts, shared>>
    /\ UNCHANGED <<loading, timer, nextId, returned>>

\* Faulty variant: Approve is let through only for a total above 70
handleDecision_guard_byScore(decision, sel, isLoading) ==
    /\ ~IsNull(sel)
    /\ ~isLoading
    /\ decision = "approve" =>
          Val(sel).scheduling_score * 4 + Val(sel).alignment_score * 4
            + Val(sel).workload_score * 2 > 700

\* What stands between a click on a decision button and handleDecision's
\* work: the button is disabled while loading, and handleDecision returns at
\* once when no plan is selected
handleDecision_guard(decision, sel, isLoading) ==
    /\ ~IsNull(sel)
    /\ ~isLoading

\* handleDecision('edit'): open the modal
handleDecision_edit ==
    /\ handleDecision_guard("edit", selectedPlan, loading)
    /\ isModalOpen' = TRUE
    /\ UNCHANGED <<selectedPlan, editedPlanDetails, context, edits, alerts, shared>>
    /\ UNCHANGED hookVars

\* handleDecision('approve' | 'reject') up to its await
handleDecision(decision) ==
    /\ decision \in {"approve", "reject"}
    /\ handleDecision_guard(decision, selectedPlan, loading)
    /\ submitDecision(Val(selectedPlan).planId, decision, <<>>, Null, "handleDecision")
    /\ UNCHANGED dashVars

\* onChange of the modal's textarea
modal_onChange(text) ==
    /\ isModalOpen
    /\ text # context
    /\ context' = text
    /\ UNCHANGED <<selectedPlan, editedPlanDetails, isModalOpen, edits, alerts,
                   shared>>
    /\ UNCHANGED hookVars

\* The modal's Cancel button: onClose
modal_onClose ==
    /\ isModalOpen
    /\ isModalOpen' = FALSE
    /\ UNCHANGED <<selectedPlan, editedPlanDetails, context, edits, alerts, shared>>
    /\ UNCHANGED hookVars

\* The modal's Submit button is disabled while the trimmed context is empty
modal_canSubmit == isModalOpen /\ Trim(context) # <<>>

\* The modal's handleSubmit: handleModalSubmit(context) up to its await,
\* then setContext('')
handleModalSubmit ==
    /\ modal_canSubmit
    /\ isModalOpen' = FALSE
    /\ context' = <<>>
    /\ IF IsNull(selectedPlan)
       THEN \* selectedPlan.planId throws a TypeError, which the catch reports
            /\ alerts' = alerts \cup {"errorEdits"}
            /\ UNCHANGED <<hookVars, shared>>
       ELSE /\ submitDecision(Val(selectedPlan).planId, "edit", context,
                              Some(editedPlanDetails), "handleModalSubmit")
            /\ shared' = shared \cup {nextId}
            /\ UNCHANGED alerts
    /\ UNCHANGED <<selectedPlan, editedPlanDetails, edits>>

\* The alert that follows the await of a handler
alertAfter(call, result) ==
    IF result = "ok"
    THEN IF call.via = "handleModalSubmit" THEN "edited" ELSE "marked"
    ELSE IF call.via = "handleModalSubmit" THEN "errorEdits" ELSE "errorDecision"

\* A latency timer fires in the dashboard: submitDecision finishes, the
\* effects on [plans] and [selectedPlan] run, and the handler shows its alert.
dashboard_resume ==
    /\ submitDecision_resume
    /\ selectAndSync(effect_selectPlan(plans', selectedPlan))
    /\ alerts' = alerts \cup
          {alertAfter(Head(calls), submitDecision_outcome(Head(calls), plans))}
    /\ UNCHANGED <<isModalOpen, context, edits>>

dashboard_loadTimer == loadTimer /\ UNCHANGED dashVars

----------------------------------------------------------------------------
(* The dashboard and its hook *)

scores_idle == scoresIn = <<0, 0, 0>> /\ shown = Null

csv_idle == csvText = <<>> /\ csvRows = Null

Init == usePlans_init /\ ReviewDashboard_init /\ scores_idle /\ csv_idle

Next ==
    \/ dashboard_loadTimer /\ UNCHANGED <<scoreVars, csvVars>>
    \/ \E i \in 1..Len(MOCK_PLANS) : clickPlan(i) /\ UNCHANGED <<scoreVars, csvVars>>
    \/ \E index \in 1..4, value \in HoursInputs :
          handleDetailChange(index, "allocatedHours", value) /\ UNCHANGED <<scoreVars, csvVars>>
    \/ \E index \in 1..4, value \in Priorities :
          handleDetailChange(index, "priority", value) /\ UNCHANGED <<scoreVars, csvVars>>
    \/ handleDecision_edit /\ UNCHANGED <<scoreVars, csvVars>>
    \/ \E decision \in {"approve", "reject"} :
          handleDecision(decision) /\ UNCHANGED <<scoreVars, csvVars>>
    \/ \E text \in ContextTexts : modal_onChange(text) /\ UNCHANGED <<scoreVars, csvVars>>
    \/ modal_onClose /\ UNCHANGED <<scoreVars, csvVars>>
    \/ handleModalSubmit /\ UNCHANGED <<scoreVars, csvVars>>
    \/ dashboard_resume /\ UNCHANGED <<scoreVars, csvVars>>

Spec == Init /\ [][Next]_vars

\* The callbacks of setTimeout run: a timer that is due fires.
FairSpec ==
    /\ Spec
    /\ WF_vars(dashboard_loadTimer /\ UNCHANGED <<scoreVars, csvVars>>)
    /\ WF_vars(dashboard_resume /\ UNCHANGED <<scoreVars, csvVars>>)

----------------------------------------------------------------------------
(* The hook and an arbitrary client *)

\* The arguments a client may hand to submitDecision
ClientDecisions == {"approve", "reject", "edit"}
ClientContexts == {<<>>, <<"x">>}
ClientPatches ==
    {Null, Some(<<>>), Some(MOCK_PLANS[1].study_plan_details),
     \* two lines for the course MTH-110
     Some(<<MOCK_PLANS[1].study_plan_details[1],
            [MOCK_PLANS[1].study_plan_details[1] EXCEPT !.allocatedHours = 8]>>)}

client_submitDecision(planId, decision, ctx, editedDetails) ==
    /\ submitDecision(planId, decision, ctx, editedDetails, "client")
    /\ UNCHANGED dashVars

client_resume == submitDecision_resume /\ UNCHANGED dashVars

client_loadTimer == loadTimer /\ UNCHANGED dashVars

NextHook ==
    \/ client_loadTimer /\ UNCHANGED <<scoreVars, csvVars>>
    \/ \E planId \in PlanIds, decision \in ClientDecisions,
          ctx \in ClientContexts, editedDetails \in ClientPatches :
          client_submitDecision(planId, decision, ctx, editedDetails)
            /\ UNCHANGED <<scoreVars, csvVars>>
    \/ client_resume /\ UNCHANGED <<scoreVars, csvVars>>

SpecHook == Init /\ [][NextHook]_vars

----------------------------------------------------------------------------
(* The score arithmetic of the render *)

\* A score is shown "Out of 100"
MaxScore == 100
Scores == 0..MaxScore

\* Math.round of the fraction num/den (den > 0): the nearest integer, the
\* larger one when two are equally near
Math_round(num, den) ==
    LET q == num \div den
        r == num % den
    IN  IF 2 * r >= den THEN q + 1 ELSE q

\* Faulty variant: the weights 0.5, 0.3 and 0.2
weightedTenths_odd(s, a, w) == 5 * s + 3 * a + 2 * w

\* s * 0.4 + a * 0.4 + w * 0.2 in tenths
weightedTenths(s, a, w) == 4 * s + 4 * a + 2 * w

\* Faulty variant: Math.floor in place of Math.round
weightedTotal_floor(s, a, w) == (4 * s + 4 * a + 2 * w) \div 10

\* Math.round(s * 0.4 + a * 0.4 + w * 0.2), the sum taken in tenths.  The
\* double arithmetic of the source is off the exact sum by less than 1e-13,
\* and the exact sum is a multiple of 0.2, so both round alike.
weightedTotal(s, a, w) == Math_round(weightedTenths(s, a, w), 10)

\* Faulty variant: the thresholds compared with < in place of <=
getScoreColor_strict(score) ==
    IF score < 45 THEN "text-red-500 bg-red-50"
    ELSE IF score < 75 THEN "text-amber-600 bg-amber-50"
    ELSE "text-green-600 bg-green-50"

\* getScoreColor(score): the text and background classes of a score card
getScoreColor(score) ==
    IF score <= 45 THEN "text-red-500 bg-red-50"
    ELSE IF score <= 75 THEN "text-amber-600 bg-amber-50"
    ELSE "text-green-600 bg-green-50"

\* getButtonColorClass(colorCode), colorCode.toLowerCase() already applied
getButtonColorClass(colorCode) ==
    CASE colorCode = "red" -> "bg-red-600 hover:bg-red-700"
      [] colorCode = "yellow" -> "bg-amber-600 hover:bg-amber-700"
      [] colorCode = "green" -> "bg-green-600 hover:bg-green-700"
      [] OTHER -> "bg-gray-500 hover:bg-gray-600"

\* The numbers and classes the render shows for one plan: the weighted
\* total, the class of each of the three score cards, and the class that
\* getScoreColor gives the total
render(s, a, w) ==
    [total |-> weightedTotal(s, a, w),
     cards |-> <<getScoreColor(s), getScoreColor(a), getScoreColor(w)>>,
     totalClass |-> getScoreColor(weightedTotal(s, a, w))]

InitScores ==
    /\ usePlans_init
    /\ ReviewDashboard_init
    /\ scoresIn \in Scores \X Scores \X Scores
    /\ shown = Null
    /\ csv_idle

renderScores ==
    /\ IsNull(shown)
    /\ shown' = Some(render(scoresIn[1], scoresIn[2], scoresIn[3]))
    /\ UNCHANGED <<scoresIn, hookVars, dashVars, csvVars>>

NextScores == renderScores

SpecScores == InitScores /\ [][NextScores]_vars

\* Numbers that getScoreColor may be handed: it takes whatever the plan
\* object holds, and nothing on the way to it looks at the range.
RawScores == {-5, 0, 45, 76, 100, 101, 150}

InitRawScores ==
    /\ usePlans_init
    /\ ReviewDashboard_init
    /\ scoresIn \in RawScores \X RawScores \X RawScores
    /\ shown = Null
    /\ csv_idle

SpecRawScores == InitRawScores /\ [][NextScores]_vars

----------------------------------------------------------------------------
(* The CSV tables: parseCSV *)

Quote == "\""
Comma == ","
NewLine == "\n"

\* The length of a CSV text
MaxTextLen == 4

\* The characters of a CSV text: the two that parseCSV looks for, the line
\* break, white space and a letter
CsvChars == {Quote, Comma, NewLine, " ", "a"}

CsvTexts == UNION {[1..n -> CsvChars] : n \in 0..MaxTextLen}

RECURSIVE split(_, _)
\* String.prototype.split with a one-character separator
split(text, sep) ==
    IF \A i \in 1..Len(text) : text[i] # sep THEN <<text>>
    ELSE LET i == CHOOSE k \in 1..Len(text) :
                     text[k] = sep /\ \A j \in 1..(k - 1) : text[j] # sep
         IN  <<SubSeq(text, 1, i - 1)>> \o split(SubSeq(text, i + 1, Len(text)), sep)

RECURSIVE parseCSV_scan(_, _, _, _, _)
\* The for loop over the characters of a line, from index i on, and the push
\* of the last value after it
parseCSV_scan(line, i, inQuotes, currentValue, row) ==
    IF i > Len(line) THEN Append(row, Trim(currentValue))
    ELSE IF line[i] = Quote
         THEN parseCSV_scan(line, i + 1, ~inQuotes, currentValue, row)
    ELSE IF line[i] = Comma /\ ~inQuotes
         THEN parseCSV_scan(line, i + 1, inQuotes, <<>>,
                            Append(row, Trim(currentValue)))
    ELSE parseCSV_scan(line, i + 1, inQuotes, Append(currentValue, line[i]), row)

RECURSIVE replaceDoubledQuotes(_)
\* cell.replace(/""/g, '"')
replaceDoubledQuotes(s) ==
    IF Len(s) < 2 THEN s
    ELSE IF s[1] = Quote /\ s[2] = Quote
         THEN <<Quote>> \o replaceDoubledQuotes(SubSeq(s, 3, Len(s)))
    ELSE <<s[1]>> \o replaceDoubledQuotes(Tail(s))

\* The map over the cells of a row: a cell that starts and ends with a
\* quote loses both and has its doubled quotes replaced
parseCSV_cell(cell) ==
    IF cell # <<>> /\ cell[1] = Quote /\ cell[Len(cell)] = Quote
    THEN replaceDoubledQuotes(SubSeq(cell, 2, Len(cell) - 1))
    ELSE cell

\* parseCSV(text): the rows of the text, each a sequence of cells
parseCSV(text) ==
    LET lines == split(Trim(text), NewLine) IN
    [k \in 1..Len(lines) |->
        LET row == parseCSV_scan(lines[k], 1, FALSE, <<>>, <<>>) IN
        [c \in 1..Len(row) |-> parseCSV_cell(row[c])]]

InitCSV ==
    /\ usePlans_init
    /\ ReviewDashboard_init
    /\ scores_idle
    /\ csvText \in CsvTexts
    /\ csvRows = Null

\* .then(csvText => { const data = parseCSV(csvText); ... })
loadCSV ==
    /\ IsNull(csvRows)
    /\ csvRows' = Some(parseCSV(csvText))
    /\ UNCHANGED <<csvText, hookVars, dashVars, scoreVars>>

NextCSV == loadCSV

SpecCSV == InitCSV /\ [][NextCSV]_vars

----------------------------------------------------------------------------
(* Properties *)

\* The three levels, as the classes getScoreColor returns
RED == "text-red-500 bg-red-50"
YELLOW == "text-amber-600 bg-amber-50"
GREEN == "text-green-600 bg-green-50"

\* The colour code (the vocabulary of weighted_color) of a total
Classification(total) ==
    CASE getScoreColor(total) = RED -> "red"
      [] getScoreColor(total) = YELLOW -> "yellow"
      [] getScoreColor(total) = GREEN -> "green"

PlanTotal(p) == weightedTotal(p.scheduling_score, p.alignment_score, p.workload_score)

\* The plans on screen: the queue and the selected plan
Displayed == {plans[i] : i \in 1..Len(plans)} \cup {selectedPlan[i] : i \in 1..Len(selectedPlan)}

\* c2 started while c1 was still awaiting its latency timer
Overlap(c1, c2) == c1.id \in c2.overlapped

\* An edit decision with no patch or an empty one
EmptyPatchCall(c) ==
    c.decision = "edit" /\ (IsNull(c.editedDetails) \/ c.editedDetails = Some(<<>>))

\* C1: of two overlapping submitDecision calls for the same queued plan,
\* exactly one resolves the plan and the other returns AlreadyResolved, and
\* afterwards the queue holds no entry for the plan.
C1_OverlappingDecisionsOneWins ==
    \A c1, c2 \in returned :
        (/\ c1.planId = c2.planId
         /\ Overlap(c1, c2)
         /\ c1.queuedAtStart /\ c2.queuedAtStart)
        => /\ \/ c1.result = "ok" /\ c2.result = "AlreadyResolved"
              \/ c1.result = "AlreadyResolved" /\ c2.result = "ok"
           /\ c1.planId \notin QueueIds(plans)

\* c started after d had finished
After(d, c) == d.id < c.id /\ ~Overlap(d, c)

\* C2: a submitDecision call that starts after an earlier call has finished
\* and taken the plan out of the queue is refused with AlreadyResolved.
C2_LaterDecisionRefused ==
    \A c \in returned :
        (\E d \in returned : d.planId = c.planId /\ d.removed /\ After(d, c))
        => c.result = "AlreadyResolved"

\* C3: an edit decision with an empty context is rejected with
\* MissingJustification and takes nothing out of the queue.
C3_EmptyContextRejected ==
    \A c \in returned :
        (c.decision = "edit" /\ c.context = <<>>)
        => c.result = "MissingJustification" /\ ~c.removed

\* C4: an edit decision with an empty patch changes neither the queue (and
\* with it no plan's details) nor the loading flag, neither when the call
\* starts nor when it finishes, and it finishes with EmptyPatch.
C4_EmptyPatchChangesNothing ==
    [][/\ (nextId' = nextId + 1 /\ EmptyPatchCall(calls'[Len(calls')]))
          => (plans' = plans /\ loading' = loading)
       /\ (nextId' = nextId /\ calls # <<>> /\ calls' = Tail(calls)
             /\ EmptyPatchCall(Head(calls)))
          => /\ plans' = plans /\ loading' = loading
             /\ \A c \in returned' \ returned : c.result = "EmptyPatch"]_vars

C6_QueueOnlyYellow ==
    \A i \in 1..Len(plans) :
        /\ plans[i].weighted_color \notin {"red", "green"}
        /\ getScoreColor(PlanTotal(plans[i])) \notin {RED, GREEN}

\* C6 witness: an approve or reject decision has been taken and a plan is
\* still queued.
C6_Witness ==
    /\ Len(plans) = 1
    /\ \E c \in returned : c.decision \in {"approve", "reject"} /\ c.removed

InBand(x, cls) ==
    /\ cls = RED <=> x \in 0..45
    /\ cls = YELLOW <=> x \in 46..75
    /\ cls = GREEN <=> x \in 76..100

\* C7: a value in [0,100] is RED up to 45, YELLOW from 46 to 75 and GREEN
\* from 76, for each score card and for the weighted total.
C7_Thresholds ==
    ~IsNull(shown) =>
        /\ \A i \in 1..3 : InBand(scoresIn[i], Val(shown).cards[i])
        /\ InBand(Val(shown).total, Val(shown).totalClass)
        /\ Val(shown).total = 45 => Val(shown).totalClass = RED
        /\ Val(shown).total \in {46, 75} => Val(shown).totalClass = YELLOW
        /\ Val(shown).total = 76 => Val(shown).totalClass = GREEN

\* C7 witness: the scores 45, 46 and 76 have been classified.
C7_Witness ==
    /\ ~IsNull(shown)
    /\ scoresIn = <<45, 46, 76>>
    /\ Val(shown).cards = <<RED, YELLOW, GREEN>>

\* C8: the weighted total is floor((4s + 4a + 2w + 5) / 10), lies in
\* [0,100], and is 73 for (70, 85, 55).
C8_WeightedTotal ==
    ~IsNull(shown) =>
        /\ Val(shown).total = (4 * scoresIn[1] + 4 * scoresIn[2] + 2 * scoresIn[3] + 5) \div 10
        /\ Val(shown).total \in 0..100
        /\ scoresIn = <<70, 85, 55>> => Val(shown).total = 73

\* C8 witness: the total of (70, 85, 55) has been computed.
C8_Witness ==
    /\ ~IsNull(shown)
    /\ scoresIn = <<70, 85, 55>>
    /\ Val(shown).total = 73

\* The selected plan with other scores and another colour
Rescored(sel, score, colour) ==
    Some([Val(sel) EXCEPT !.scheduling_score = score, !.alignment_score = score,
                          !.workload_score = score, !.weighted_color = colour])

\* C9: while a plan is selected and the buttons are enabled, Approve and
\* Reject can both be submitted; what lets a decision through gives the same
\* answer for the selected plan with any scores and colour; and every approve
\* or reject decision on a queued plan succeeds and the plan leaves the queue.
C9_ApproveRejectUnconditional ==
    /\ (~IsNull(selectedPlan) /\ ~loading /\ nextId <= MaxCalls)
       => /\ ENABLED handleDecision("approve")
          /\ ENABLED handleDecision("reject")
    /\ ~IsNull(selectedPlan)
       => \A decision \in {"approve", "reject"}, score \in {0, 45, 46, 75, 76, 100},
             colour \in {"red", "yellow", "green"} :
             handleDecision_guard(decision, Rescored(selectedPlan, score, colour), loading)
               = handleDecision_guard(decision, selectedPlan, loading)
    /\ \A c \in returned :
          (c.decision \in {"approve", "reject"} /\ c.queuedAtStart)
          => c.result = "ok" /\ c.planId \notin QueueIds(plans)

\* C9 witness: one plan has been approved and the other rejected.
C9_Witness ==
    \E c1, c2 \in returned :
        /\ c1.decision = "approve" /\ c1.removed /\ c1.via = "handleDecision"
        /\ c2.decision = "reject" /\ c2.removed /\ c2.via = "handleDecision"

\* C10: a plan whose submitDecision call has finished with success is not in
\* the queue, then and ever after.
C10_AcceptedDecisionRemoves ==
    \A c \in returned : c.result = "ok" => c.planId \notin QueueIds(plans)

\* C10 witness: an edit decision took a queued plan out and a later call has
\* finished since.
C10_Witness ==
    \E c, d \in returned :
        /\ c.decision = "edit" /\ c.queuedAtStart /\ c.removed
        /\ d.id > c.id /\ d.planId # c.planId

\* C11: two overlapping submitDecision calls for two different queued plans
\* both succeed and both plans are out of the queue; neither update of the
\* queue undoes the other, so that the queue is the first queue without the
\* plans of the finished calls.
C11_OverlappingCallsBothRemove ==
    \A c1, c2 \in returned :
        (/\ Overlap(c1, c2) /\ c1.planId # c2.planId
         /\ c1.queuedAtStart /\ c2.queuedAtStart)
        => /\ c1.result = "ok" /\ c2.result = "ok"
           /\ {c1.planId, c2.planId} \cap QueueIds(plans) = {}
           /\ plans = SelectSeq(MOCK_PLANS,
                         LAMBDA p : p.planId \notin {c.planId : c \in returned})

\* C11 witness: two calls for different plans have overlapped and finished,
\* and each found its plan in the queue.
C11_Witness ==
    \E c1, c2 \in returned :
        /\ Overlap(c1, c2) /\ c1.planId # c2.planId
        /\ c1.removed /\ c2.removed

\* C12: the step in which a decision on a plan finishes deletes the entries
\* of that plan from the queue and nothing else: the other entries keep their
\* content and their order.
C12_OtherPlansUntouched ==
    [][(calls # <<>> /\ returned' # returned)
       => LET P == Head(calls).planId IN
            /\ plans' = SelectSeq(plans, LAMBDA p : p.planId # P)
            /\ \A i \in 1..Len(plans) :
                  plans[i].planId # P
                  => \E j \in 1..Len(plans') : plans'[j] = plans[i]]_vars

\* C12 witness: the decision on plan-002 has finished and plan-001 is in the
\* queue as it was loaded.
C12_Witness ==
    /\ plans = <<mockPlan001>>
    /\ \E c \in returned : c.planId = "plan-002" /\ c.removed

\* A detail line of a patch is valid: whole hours, not negative, and one of
\* the three priorities
ValidPatchLine(line) ==
    line.allocatedHours \in Nat /\ line.priority \in Priorities

\* C13: every line of an accepted edit patch has non-negative whole hours
\* and one of the three priorities; a patch with an invalid line is rejected
\* with InvalidPatchLine and the plan stays as it was.
C13_InvalidPatchLineRejected ==
    \A c \in returned :
        (c.decision = "edit" /\ ~IsNull(c.editedDetails))
        => LET lines == Val(c.editedDetails)
               invalid == \E i \in 1..Len(lines) : ~ValidPatchLine(lines[i])
           IN /\ c.result = "ok" => ~invalid
              /\ invalid => c.result = "InvalidPatchLine" /\ ~c.removed

\* The detail lines with which a plan was loaded
OriginalLines(planId) == Val(find(MOCK_PLANS, planId)).study_plan_details

DuplicateCourseCode(lines) ==
    \E i, j \in 1..Len(lines) : i # j /\ lines[i].courseCode = lines[j].courseCode

\* C15: the lines of an accepted edit patch name each course once; a patch
\* with two lines for one courseCode is rejected with DuplicateCourseCode and
\* the plan stays in the queue.
C15_DuplicateCourseCodeRejected ==
    \A c \in returned :
        (c.decision = "edit" /\ ~IsNull(c.editedDetails))
        => LET dup == DuplicateCourseCode(Val(c.editedDetails))
           IN /\ c.result = "ok" => ~dup
              /\ dup => c.result = "DuplicateCourseCode" /\ ~c.removed

\* The console lines that call c wrote, by kind
LogLines(c, kind) ==
    {i \in 1..Len(console) : console[i].call = c.id /\ console[i].kind = kind}

\* C16: the record of decisions is append-only.  Every accepted decision
\* has exactly one entry in it, the entry of an edit holds the context as it
\* was given, and no step changes or removes an entry that is already there.
C16_AuditTrailAppendOnly ==
    [][/\ Len(console') >= Len(console)
       /\ \A i \in 1..Len(console) : console'[i] = console[i]
       /\ \A c \in returned' :
            c.result = "ok"
            => /\ Cardinality(LogLines(c, "decision")') = 1
               /\ c.decision = "edit"
                  => \E i \in LogLines(c, "context")' : console'[i].text = c.context]_vars

\* C17: a call that finished an edit decision has sent exactly one re-scoring
\* request, which carries the planId and the patched lines; a call that
\* finished an approve or a reject has sent none.
C17_EditEmitsOneRescoring ==
    \A c \in returned :
        c.result = "ok"
        => IF c.decision = "edit"
           THEN /\ Cardinality(c.requests) = 1
                /\ \A r \in c.requests :
                      /\ r.planId = c.planId
                      /\ ~IsNull(c.editedDetails) => r.lines = Val(c.editedDetails)
           ELSE c.requests = {}

\* C18: a score outside 0..100 is an InvalidScore error and is given no
\* colour: the card of a score above 100 is not green and the card of a
\* score below 0 is not red.
C18_InvalidScoreRejected ==
    ~IsNull(shown)
    => \A i \in 1..3 :
          scoresIn[i] \notin Scores
          => Val(shown).cards[i] \notin {RED, YELLOW, GREEN}

\* Call number id is awaiting its latency timer
InFlight(id) == \E i \in 1..Len(calls) : calls[i].id = id

\* The alerts of the catch branches of handleDecision and handleModalSubmit
ErrorAlerts == {"errorDecision", "errorEdits"}

\* C19: every submitDecision call that has started finishes in the end, with
\* success and with its plan out of the queue, and the catch branch of the
\* dashboard's handlers is never taken.
C19_CallsSucceedNoErrorBranch ==
    /\ \A id \in 1..MaxCalls :
          InFlight(id)
          ~> \E c \in returned :
                c.id = id /\ c.result = "ok" /\ c.planId \notin QueueIds(plans)
    /\ [](alerts \cap ErrorAlerts = {})

\* C20: loading is true in every state in which a submitDecision call has
\* started and has not finished.
C20_LoadingWhileInFlight ==
    calls # <<>> => loading

\* The lines name the courses of orig, in the order of orig
SameCourses(lines, orig) ==
    /\ Len(lines) = Len(orig)
    /\ \A i \in 1..Len(orig) :
          /\ lines[i].courseCode = orig[i].courseCode
          /\ lines[i].courseName = orig[i].courseName

\* C21: the patch of every edit decision that the dashboard submits for a
\* plan has that plan's courses in that plan's order, while the call waits
\* and when it has finished; so do the lines in the editor for the selected
\* plan.  Lines edited for another plan are never part of it.
C21_PatchBelongsToPlan ==
    /\ \A i \in 1..Len(calls) :
          calls[i].via = "handleModalSubmit"
          => SameCourses(Val(calls[i].editedDetails), OriginalLines(calls[i].planId))
    /\ \A c \in returned :
          c.via = "handleModalSubmit"
          => SameCourses(Val(c.editedDetails), OriginalLines(c.planId))
    /\ ~IsNull(selectedPlan)
          => SameCourses(editedPlanDetails, OriginalLines(Val(selectedPlan).planId))

\* C21 witness: an edit decision for plan-002, which was not the first
\* selection, has finished with a patch that differs from the plan's lines.
C21_Witness ==
    \E c \in returned :
        /\ c.via = "handleModalSubmit" /\ c.planId = "plan-002"
        /\ Val(c.editedDetails) # OriginalLines("plan-002")

\* The entries of a queue
Entries(q) == {q[i] : i \in 1..Len(q)}

\* C22: selectedPlan is null exactly when the queue is empty and is otherwise
\* an entry of the queue, and every decision of the dashboard was submitted
\* for a plan that was queued at the click; a step that changes the queue
\* leaves selected the entry with the same planId if there is one, else the
\* first entry.
C22_SelectionInQueue ==
    /\ [](/\ IsNull(selectedPlan) <=> plans = <<>>
          /\ ~IsNull(selectedPlan) => Val(selectedPlan) \in Entries(plans)
          /\ \A i \in 1..Len(calls) : calls[i].queuedAtStart
          /\ \A c \in returned : c.queuedAtStart)
    /\ [][plans' # plans
          => selectedPlan' =
               IF plans' = <<>> THEN Null
               ELSE IF ~IsNull(selectedPlan)
                       /\ Val(selectedPlan).planId \in QueueIds(plans')
                    THEN Some(CHOOSE p \in Entries(plans') :
                                 p.planId = Val(selectedPlan).planId)
                    ELSE Some(plans'[1])]_vars

\* C22 witness: the selected plan was decided and removed, and the first
\* plan of the queue that is left is selected.
C22_Witness ==
    /\ \E c \in returned : c.planId = "plan-001" /\ c.removed
    /\ plans = <<mockPlan002>>
    /\ selectedPlan = Some(mockPlan002)

\* C23: no two entries of the queue share a planId, and no step adds to the
\* queue: the set of queued planIds and the length of the queue never grow,
\* so a plan that has left the queue is never in it again.
C23_QueueOnlyShrinks ==
    /\ [](\A i, j \in 1..Len(plans) : plans[i].planId = plans[j].planId => i = j)
    /\ [][/\ QueueIds(plans') \subseteq QueueIds(plans)
          /\ Len(plans') <= Len(plans)
          /\ \A c \in returned : c.planId \notin QueueIds(plans')]_vars

\* C23 witness: a plan was removed, a later call for the same plan has
\* finished as well, and the plan is not in the queue.
C23_Witness ==
    \E c, d \in returned :
        /\ c.removed /\ d.id > c.id /\ d.planId = c.planId
        /\ ~d.queuedAtStart
        /\ c.planId \notin QueueIds(plans)

\* num/den rounded to the nearest integer, a tie going up: floor(x + 1/2)
RoundHalfUp(num, den) == (2 * num + den) \div (2 * den)

\* num/den rounded to the nearest integer, a tie going to the even one
RoundHalfEven(num, den) ==
    LET q == num \div den
        r == num % den
    IN  IF 2 * r < den THEN q
        ELSE IF 2 * r > den THEN q + 1
        ELSE IF q % 2 = 0 THEN q ELSE q + 1

\* C24: for scores in 0..100 the weighted sum in tenths is even, so it is
\* never half-way between two integers; the total on screen is what
\* round-half-up and round-half-even give, and so is its colour.
C24_TieBreakIrrelevant ==
    ~IsNull(shown)
    => LET n == weightedTenths(scoresIn[1], scoresIn[2], scoresIn[3])
           t == Val(shown).total
       IN /\ n % 2 = 0
          /\ n % 10 # 5
          /\ t = RoundHalfUp(n, 10)
          /\ t = RoundHalfEven(n, 10)
          /\ Val(shown).totalClass = getScoreColor(RoundHalfEven(n, 10))

\* C24 witness: a rendered total whose sum is as near to a half as it gets,
\* 0.6 above an integer, next to a threshold: 45.6 is shown as 46.
C24_Witness ==
    /\ ~IsNull(shown)
    /\ weightedTenths(scoresIn[1], scoresIn[2], scoresIn[3]) = 456
    /\ Val(shown).total = 46
    /\ Val(shown).totalClass = YELLOW

\* The commas of a line that lie outside double quotes: those with an even
\* number of quote characters before them
OutsideCommas(line) ==
    {i \in 1..Len(line) :
        /\ line[i] = Comma
        /\ Cardinality({j \in 1..(i - 1) : line[j] = Quote}) % 2 = 0}

\* The text of field c of a line, as written: what stands between the
\* outside commas number c - 1 and c
RawField(line, c) ==
    LET cs == OutsideCommas(line)
        pos(k) == CHOOSE i \in cs : Cardinality({j \in cs : j < i}) = k - 1
        from == IF c = 1 THEN 1 ELSE pos(c - 1) + 1
        to == IF c = Cardinality(cs) + 1 THEN Len(line) ELSE pos(c) - 1
    IN  SubSeq(line, from, to)

RECURSIVE QuotedText(_)
\* The inside of a quoted field: characters other than the quote, and
\* doubled quotes
QuotedText(s) ==
    \/ s = <<>>
    \/ s[1] # Quote /\ QuotedText(Tail(s))
    \/ Len(s) >= 2 /\ s[1] = Quote /\ s[2] = Quote /\ QuotedText(SubSeq(s, 3, Len(s)))

\* A field written in quotes
QuotedField(f) ==
    /\ Len(f) >= 2 /\ f[1] = Quote /\ f[Len(f)] = Quote
    /\ QuotedText(SubSeq(f, 2, Len(f) - 1))

RECURSIVE Unquoted(_)
\* The text that the inside of a quoted field stands for: each doubled quote
\* is one quote character
Unquoted(s) ==
    IF s = <<>> THEN <<>>
    ELSE IF s[1] = Quote THEN <<Quote>> \o Unquoted(SubSeq(s, 3, Len(s)))
    ELSE <<s[1]>> \o Unquoted(Tail(s))

\* C25: parseCSV makes one row of every line; a row has one field more than
\* its line has commas outside double quotes; and the cell of a field written
\* in quotes is the text between the quotes, each doubled quote in it turned
\* into one quote character (and the white space at its ends trimmed, as
\* parseCSV trims every cell).
C25_ParseCSVFields ==
    ~IsNull(csvRows)
    => LET lines == split(Trim(csvText), NewLine)
           rows == Val(csvRows)
       IN /\ Len(rows) = Len(lines)
          /\ \A k \in 1..Len(lines) :
                /\ Len(rows[k]) = 1 + Cardinality(OutsideCommas(lines[k]))
                /\ \A c \in 1..Len(rows[k]) :
                      LET f == RawField(lines[k], c) IN
                      QuotedField(f)
                      => rows[k][c] = Trim(Unquoted(SubSeq(f, 2, Len(f) - 1)))

=============================================================================
